---- MODULE Spec2Model ----
(***************************************************************************)
(* A model of quora-backup: converter.py (cleanup_tree, the image download *)
(* inside it and the per-file loop) and crawler.py (parse_quora_date and   *)
(* the file name of an answer).                                            *)
(*                                                                         *)
(* Strings are sequences of one-character strings, so that the substring   *)
(* tests, prefix tests and the filename regular expression of the source   *)
(* are computed rather than assumed.  A DOM node is a record               *)
(*   [kind, tag, attrs, kids, data]                                        *)
(* with kind "text", "elem" or "comment"; attrs is a function from the     *)
(* names of the attributes that are present to their values.               *)
(***************************************************************************)
EXTENDS Integers, Sequences, FiniteSets, TLC

\* ------------------------------------------------------------------------
\* String literals of the source
\* ------------------------------------------------------------------------
EmptyStr == <<>>
S_inline_codeblock == <<"i", "n", "l", "i", "n", "e", "_", "c", "o", "d", "e", "b", "l", "o", "c", "k">>
S_codeblocktable == <<"c", "o", "d", "e", "b", "l", "o", "c", "k", "t", "a", "b", "l", "e">>
S_ContentFooter == <<"C", "o", "n", "t", "e", "n", "t", "F", "o", "o", "t", "e", "r">>
S_hidden == <<"h", "i", "d", "d", "e", "n">>
S_math == <<"m", "a", "t", "h">>
S_ExpandedAnswer == <<"E", "x", "p", "a", "n", "d", "e", "d", "A", "n", "s", "w", "e", "r">>
S_quora_origin == <<"h", "t", "t", "p", ":", "/", "/", "q", "u", "o", "r", "a", ".", "c", "o", "m">>
S_http_colon == <<"h", "t", "t", "p", ":">>
S_slashslash == <<"/", "/">>
S_slash == <<"/">>
S_dot_png == <<".", "p", "n", "g">>
S_525 == <<"5", "2", "5">>
S_295 == <<"2", "9", "5">>
S_newline == <<"\n">>
S_dot_html == <<".", "h", "t", "m", "l">>
S_space == <<" ">>
S_unknown_date == <<"x", "x", "x", "x", "-", "x", "x", "-", "x", "x">>
S_quora_com_slash == <<"q", "u", "o", "r", "a", ".", "c", "o", "m", "/">>
S_slash_answer == <<"/", "a", "n", "s", "w", "e", "r">>

\* ------------------------------------------------------------------------
\* String operations (str methods and the "in" operator of Python)
\* ------------------------------------------------------------------------

\* s.startswith(p)
StartsWith(s, p) ==
    /\ Len(p) <= Len(s)
    /\ \A i \in 1..Len(p) : s[i] = p[i]

\* s.endswith(p)
EndsWith(s, p) ==
    /\ Len(p) <= Len(s)
    /\ \A i \in 1..Len(p) : s[Len(s) - Len(p) + i] = p[i]

\* needle in hay   (substring test on str)
IsSubstr(needle, hay) ==
    \E k \in 0..(Len(hay) - Len(needle)) :
        \A i \in 1..Len(needle) : hay[k + i] = needle[i]

\* s.split(): the maximal runs of non-blank characters, in order
RECURSIVE SplitFrom(_, _, _)
SplitFrom(s, i, cur) ==
    IF i > Len(s)
    THEN IF cur = <<>> THEN <<>> ELSE <<cur>>
    ELSE IF s[i] = " "
         THEN (IF cur = <<>> THEN <<>> ELSE <<cur>>) \o SplitFrom(s, i + 1, <<>>)
         ELSE SplitFrom(s, i + 1, Append(cur, s[i]))

Split(s) == SplitFrom(s, 1, <<>>)

\* x in list
InList(x, list) == \E i \in 1..Len(list) : list[i] = x

\* sep.join(parts)
RECURSIVE Join(_, _)
Join(sep, parts) ==
    IF parts = <<>> THEN <<>>
    ELSE IF Len(parts) = 1 THEN parts[1]
    ELSE parts[1] \o sep \o Join(sep, Tail(parts))

\* ------------------------------------------------------------------------
\* DOM (xml.dom.minidom as the source uses it)
\* ------------------------------------------------------------------------
NoAttrs == [a \in {} |-> <<>>]

Text(d) == [kind |-> "text", tag |-> "#text", attrs |-> NoAttrs, kids |-> <<>>, data |-> d]
Comment(d) == [kind |-> "comment", tag |-> "#comment", attrs |-> NoAttrs, kids |-> <<>>, data |-> d]
Elem(t, a, k) == [kind |-> "elem", tag |-> t, attrs |-> a, kids |-> k, data |-> <<>>]

\* node.getAttribute(name): the value, or '' when the attribute is absent
getAttribute(n, name) ==
    IF name \in DOMAIN n.attrs THEN n.attrs[name] ELSE EmptyStr

\* node.setAttribute(name, value)
setAttribute(n, name, value) ==
    [n EXCEPT !.attrs = [a \in (DOMAIN n.attrs) \cup {name} |->
                            IF a = name THEN value ELSE n.attrs[a]]]

\* node.cloneNode(False) / importNode(node, False): attributes, no children
ShallowClone(n) == [n EXCEPT !.kids = <<>>]

\* node.cloneNode(True): the whole subtree
DeepClone(n) == n

\* node.getElementsByTagName(tag): the descendant elements of that tag, in
\* document order (the node itself is not included)
RECURSIVE ElementsIn(_, _)
ElementsIn(kids, tag) ==
    IF kids = <<>> THEN <<>>
    ELSE LET k == Head(kids) IN
         (IF k.kind = "elem" /\ k.tag = tag THEN <<k>> ELSE <<>>)
         \o (IF k.kind = "elem" THEN ElementsIn(k.kids, tag) ELSE <<>>)
         \o ElementsIn(Tail(kids), tag)

getElementsByTagName(n, tag) == ElementsIn(n.kids, tag)

\* get_text_content(node): the data of the node's own text children
RECURSIVE TextOf(_)
TextOf(kids) ==
    IF kids = <<>> THEN <<>>
    ELSE (IF Head(kids).kind = "text" THEN Head(kids).data ELSE <<>>)
         \o TextOf(Tail(kids))

get_text_content(n) == TextOf(n.kids)

\* get_title_node(document): the first title element, None when there is none
get_title_node(document) ==
    LET ts == getElementsByTagName(document, "title")
    IN  IF ts = <<>> THEN <<>> ELSE <<ts[1]>>

\* ------------------------------------------------------------------------
\* Strings of the input pages
\* ------------------------------------------------------------------------
C_answer == <<"A", "n", "s", "w", "e", "r", " ", "E", "x", "p", "a", "n", "d", "e", "d", "A", "n", "s", "w", "e", "r">>
C_collapsed == <<"C", "o", "l", "l", "a", "p", "s", "e", "d", "E", "x", "p", "a", "n", "d", "e", "d", "A", "n", "s", "w", "e", "r">>
C_code_hidden == <<"i", "n", "l", "i", "n", "e", "_", "c", "o", "d", "e", "b", "l", "o", "c", "k", " ", "h", "i", "d", "d", "e", "n">>
C_table_hidden == <<"c", "o", "d", "e", "b", "l", "o", "c", "k", "t", "a", "b", "l", "e", " ", "h", "i", "d", "d", "e", "n">>
C_unhidden == <<"u", "n", "h", "i", "d", "d", "e", "n">>
C_math == <<"m", "a", "t", "h">>
C_qtext == <<"q", "t", "e", "x", "t", "_", "i", "m", "a", "g", "e">>
U_a == <<"h", "t", "t", "p", ":", "/", "/", "q", "/", "a", ".", "p", "n", "g">>
U_a2 == <<"h", "t", "t", "p", "s", ":", "/", "/", "r", "/", "a", ".", "p", "n", "g", "?", "s", "=", "1">>
U_b == <<"h", "t", "t", "p", ":", "/", "/", "q", "/", "b">>
U_m == <<"h", "t", "t", "p", ":", "/", "/", "q", "/", "m", "?", "f", "=", "x">>
U_rel == <<"/", "i", "/", "c", ".", "p", "n", "g">>
U_bare == <<"x", ".", "p", "n", "g">>
H_rel == <<"/", "X">>
H_abs == <<"h", "t", "t", "p", ":", "/", "/", "q", "/", "a">>
H_frag == <<"#", "t">>
H_proto == <<"/", "/", "q", "/", "a">>
V_proto == <<"/", "/", "y", "/", "v">>
V_abs == <<"h", "t", "t", "p", "s", ":", "/", "/", "y", "/", "v">>
M_iframe == <<"<", "i", "f", "r", "a", "m", "e", " ", "s", "r", "c", "=", "/", "/", "y", "/", "v", ">">>
M_iframe_abs == <<"<", "i", "f", "r", "a", "m", "e", " ", "s", "r", "c", "=", "h", "t", "t", "p", "s", ":", "/", "/", "y", "/", "v", ">">>
M_para == <<"<", "p", ">", "v", "<", "/", "p", ">">>
M_blank == <<" ">>
T_x == <<"x">>
T_y == <<"y">>
T_alt == <<"p", "i", "c">>
T_w == <<"9">>

\* ------------------------------------------------------------------------
\* cleanup_tree: the dispatch on one child and the per-branch rewrites
\* ------------------------------------------------------------------------
VoidTags == {"br", "hr"}
PassthroughTags == {"b", "i", "u", "h2", "ol", "ul", "li", "blockquote", "wbr"}
WrapperTags == {"span", "div"}

\* Variant of Classify: the block code test right after the inline code test.
ClassifyCodeTogether(child) ==
    IF child.kind = "text" THEN "text"
    ELSE IF child.kind # "elem" THEN "raise"
    ELSE IF child.tag \in VoidTags THEN "void"
    ELSE IF child.tag \in PassthroughTags THEN "passthrough"
    ELSE IF getAttribute(child, "data-embed") # EmptyStr THEN "embed"
    ELSE IF IsSubstr(S_inline_codeblock, getAttribute(child, "class")) THEN "inline_code"
    ELSE IF IsSubstr(S_codeblocktable, getAttribute(child, "class")) THEN "block_code"
    ELSE IF \/ IsSubstr(S_ContentFooter, getAttribute(child, "class"))
            \/ IsSubstr(S_hidden, getAttribute(child, "class")) THEN "skip"
    ELSE IF child.tag \in WrapperTags THEN "wrapper"
    ELSE IF child.tag = "a" THEN "link"
    ELSE IF child.tag = "img" THEN "image"
    ELSE "unrecognized"

\* The if/elif chain of cleanup_tree, in the order of the source: the name of
\* the first branch whose condition holds.
Classify(child) ==
    IF child.kind = "text" THEN "text"
    ELSE IF child.kind # "elem" THEN "raise"
    ELSE IF child.tag \in VoidTags THEN "void"
    ELSE IF child.tag \in PassthroughTags THEN "passthrough"
    ELSE IF getAttribute(child, "data-embed") # EmptyStr THEN "embed"
    ELSE IF IsSubstr(S_inline_codeblock, getAttribute(child, "class")) THEN "inline_code"
    ELSE IF \/ IsSubstr(S_ContentFooter, getAttribute(child, "class"))
            \/ IsSubstr(S_hidden, getAttribute(child, "class")) THEN "skip"
    ELSE IF child.tag \in WrapperTags THEN "wrapper"
    ELSE IF child.tag = "a" THEN "link"
    ELSE IF child.tag = "img" THEN "image"
    ELSE IF IsSubstr(S_codeblocktable, getAttribute(child, "class")) THEN "block_code"
    ELSE "unrecognized"

\* Python's exception classes, as far as the handlers of the source tell them
\* apart: URLError is an OSError; HTTPException (http.client.IncompleteRead,
\* raised by read() when the connection ends mid-body) and AttributeError are
\* neither an OSError nor a ValueError.
IsInstance(exc, cls) ==
    \/ cls = "Exception"
    \/ exc = cls
    \/ exc = "URLError" /\ cls = "OSError"

\* -- video embed (lines 57-79) --------------------------------------------
\* The try block: iframe_doc.documentElement.childNodes[1].firstChild of the
\* parsed fragment, checked and imported.  body is the child list of the
\* parsed fragment's body element.
EmbedTry(body) ==
    IF body = <<>> THEN [exc |-> "AttributeError", node |-> <<>>]
    ELSE IF body[1].kind # "elem" THEN [exc |-> "AttributeError", node |-> <<>>]
    ELSE IF body[1].tag # "iframe" THEN [exc |-> "ValueError", node |-> <<>>]
    ELSE LET new_node == ShallowClone(body[1])
             src == getAttribute(new_node, "src")
             n1 == IF StartsWith(src, S_slashslash)
                   THEN setAttribute(new_node, "src", S_http_colon \o src)
                   ELSE new_node
             n2 == setAttribute(n1, "width", S_525)
             n3 == setAttribute(n2, "height", S_295)
         IN  [exc |-> "none", node |-> <<n3>>]

\* -- inline code (lines 80-93) --------------------------------------------
\* firstChild of a node: None (<<>>) for a node without children
firstChild(n) == IF n.kids = <<>> THEN <<>> ELSE <<n.kids[1]>>

\* The try block: span = child.firstChild.firstChild and the tag test.
InlineCodeTry(child) ==
    LET first == firstChild(child) IN
    IF first = <<>> THEN [exc |-> "AttributeError", node |-> <<>>]
    ELSE LET span == firstChild(first[1]) IN
         IF span = <<>> THEN [exc |-> "AttributeError", node |-> <<>>]
         ELSE IF span[1].kind # "elem" THEN [exc |-> "AttributeError", node |-> <<>>]
         ELSE IF span[1].tag # "span" THEN [exc |-> "ValueError", node |-> <<>>]
         ELSE [exc |-> "none",
               node |-> <<Elem("code", NoAttrs, <<Text(get_text_content(span[1]))>>)>>]

\* The handler of the inline-code try block: "except ValueError" only.
InlineCodeCaught(exc) == IsInstance(exc, "ValueError")

\* -- block code (lines 167-186) -------------------------------------------
RECURSIVE SpanTexts(_)
SpanTexts(spans) ==
    IF spans = <<>> THEN <<>>
    ELSE get_text_content(Head(spans)) \o SpanTexts(Tail(spans))

RECURSIVE CodeLines(_)
CodeLines(divs) ==
    IF divs = <<>> THEN <<>>
    ELSE <<SpanTexts(getElementsByTagName(Head(divs), "span"))>> \o CodeLines(Tail(divs))

BlockCode(child) ==
    LET lines == CodeLines(getElementsByTagName(child, "div"))
        code_node == Elem("code", NoAttrs, <<Text(Join(S_newline, lines))>>)
    IN  Elem("pre", NoAttrs, <<code_node>>)

\* Variant of LinkHref: the href is copied as it is.
LinkHrefUnchanged(child) == getAttribute(child, "href")

\* -- link (lines 101-109) -------------------------------------------------
LinkHref(child) ==
    LET href == getAttribute(child, "href")
    IN  IF StartsWith(href, S_slash) THEN S_quora_origin \o href ELSE href

\* Variant of ImgSrc: master_src when present, src otherwise.
ImgSrcPreferMaster(child) ==
    IF "master_src" \in DOMAIN child.attrs
    THEN child.attrs["master_src"]
    ELSE getAttribute(child, "src")

\* -- image (lines 110-166) ------------------------------------------------
\* the URL the new img starts with
ImgSrc(child) ==
    IF IsSubstr(S_math, getAttribute(child, "class"))
    THEN getAttribute(child, "src")
    ELSE getAttribute(child, "master_src")

\* the new img element before any download
NewImg(child) ==
    setAttribute(setAttribute(Elem("img", NoAttrs, <<>>), "src", ImgSrc(child)),
                 "alt", getAttribute(child, "alt"))

\* re.search('/([^/?]+)(\?|$)', src): a match starts at a "/" that is followed
\* by a maximal non-empty run of characters other than "/" and "?" which ends
\* at the end of the string or at a "?"; the leftmost such "/" is taken.
RECURSIVE RunEnd(_, _)
RunEnd(s, i) ==
    IF i < Len(s) /\ s[i + 1] \notin {"/", "?"} THEN RunEnd(s, i + 1) ELSE i

MatchAt(s, i) ==
    /\ s[i] = "/"
    /\ i + 1 <= Len(s)
    /\ s[i + 1] \notin {"/", "?"}
    /\ LET k == RunEnd(s, i + 1) IN k = Len(s) \/ s[k + 1] = "?"

\* lines 122-127: the file name, or ValueError when the pattern has no match
DeriveFilename(src) ==
    LET starts == {i \in 1..Len(src) : MatchAt(src, i)} IN
    IF starts = {} THEN [ok |-> FALSE, name |-> <<>>]
    ELSE LET i == CHOOSE m \in starts : \A n \in starts : m <= n
             filename == SubSeq(src, i + 1, RunEnd(src, i + 1))
         IN  [ok |-> TRUE,
              name |-> IF EndsWith(filename, S_dot_png) THEN filename
                       ELSE filename \o S_dot_png]

\* urllib.request.Request: a URL without a scheme ("[^/:]+:" at its start) is
\* rejected with ValueError("unknown url type") before any connection.
HasScheme(src) ==
    \E i \in 2..Len(src) :
        /\ src[i] = ":"
        /\ \A j \in 1..(i - 1) : src[j] \notin {"/", ":"}

\* The output directory: a function from the names of the files in it to
\* what they hold ("old": there before the run; "empty": created, nothing
\* written; "partial": a write failed midway; "full": the whole body).
Without(fs, fn) == [n \in (DOMAIN fs) \ {fn} |-> fs[n]]
WithFile(fs, fn, c) == [n \in (DOMAIN fs) \cup {fn} |-> IF n = fn THEN c ELSE fs[n]]

\* What the environment does to one download: oc.open is the result of the
\* exclusive create when the file does not exist, oc.net that of
\* urlopen(src).read(), oc.write that of os.write, oc.remove that of os.remove.
Outcomes ==
    [open : {"ok", "OSError"},
     net : {"ok", "URLError", "OSError", "HTTPException"},
     write : {"ok", "OSError"},
     remove : {"ok", "OSError"}]

\* Variant of OpenExcl: the file is opened without O_EXCL.
OpenNoExcl(fs, fn, oc) == oc.open

\* os.open(path, O_WRONLY | O_CREAT | O_EXCL)  (lines 128-136)
OpenExcl(fs, fn, oc) ==
    IF fn \in DOMAIN fs THEN "EEXIST" ELSE oc.open

\* urllib.request.urlopen(src).read()  (line 140)
UrlOpenRead(src, oc) ==
    IF HasScheme(src) THEN oc.net ELSE "ValueError"

\* Variant of RemoveIncomplete: the incomplete file is left in place.
RemoveIncompleteNever(fs, fn, oc) == fs

\* os.remove in the inner handler (lines 148-151): the file is gone unless
\* os.remove itself fails, which the source only reports.
RemoveIncomplete(fs, fn, oc) ==
    IF oc.remove = "ok" THEN Without(fs, fn) ELSE fs

\* Variant of SleptAfter: the delay is applied whatever read() did.
SleptAlways(net) == TRUE

\* time.sleep(args.delay) (line 141) is reached exactly when read() returned.
SleptAfter(net) == net = "ok"

\* lines 138-155: the download into the file just created
Download(fs, fn, src, oc) ==
    LET net == UrlOpenRead(src, oc) IN
    IF net # "ok"
    THEN [files |-> RemoveIncomplete(WithFile(fs, fn, "empty"), fn, oc),
          exc |-> net, net |-> net, slept |-> SleptAfter(net), written |-> FALSE,
          removeFailed |-> oc.remove # "ok"]
    ELSE IF oc.write # "ok"
    THEN [files |-> RemoveIncomplete(WithFile(fs, fn, "partial"), fn, oc),
          exc |-> "OSError", net |-> net, slept |-> SleptAfter(net), written |-> FALSE,
          removeFailed |-> oc.remove # "ok"]
    ELSE [files |-> WithFile(fs, fn, "full"),
          exc |-> "none", net |-> net, slept |-> SleptAfter(net), written |-> TRUE,
          removeFailed |-> FALSE]

\* The handlers of the outer try (lines 159-164), in order: the warning each
\* prints, or "uncaught" when none of the three matches.
OuterHandler(exc) ==
    IF IsInstance(exc, "URLError") THEN "WARNING download image"
    ELSE IF IsInstance(exc, "OSError") THEN "WARNING save image"
    ELSE IF IsInstance(exc, "ValueError") THEN "WARNING image name"
    ELSE "uncaught"

\* Variant of RewrittenSrc: the src is rewritten before the download is tried.
RewrittenSrcAlways(src, fn, result) == fn

\* The src of the appended img (lines 133 and 158): the local file name
\* after a dedup-skip or a completed download, the URL it started with
\* otherwise.
RewrittenSrc(src, fn, result) ==
    IF result \in {"dedup", "saved"} THEN fn ELSE src

\* lines 119-166 for one img whose new node starts with src: the files
\* afterwards, the src of the appended node, the exception that leaves the
\* statement (if any), and the record of what happened.
FetchImage(src, fs, oc) ==
    LET d == DeriveFilename(src)
        fn == d.name
        base == [src |-> src, fn |-> fn, existed |-> d.ok /\ fn \in DOMAIN fs,
                 created |-> FALSE, net |-> "none", slept |-> FALSE,
                 written |-> FALSE, removeFailed |-> FALSE]
        Out(f, result, exc, e) ==
            [files |-> f, src |-> RewrittenSrc(src, fn, result), exc |-> exc,
             ev |-> e @@ [result |-> result]]
    IN
    IF ~d.ok THEN Out(fs, "naming", "ValueError", base)
    ELSE LET o == OpenExcl(fs, fn, oc) IN
         IF o = "EEXIST" THEN Out(fs, "dedup", "none", base)
         ELSE IF o # "ok" THEN Out(fs, "open_failed", o, base)
         ELSE LET r == Download(fs, fn, src, oc)
                  e == [base EXCEPT !.created = TRUE, !.net = r.net, !.slept = r.slept,
                                    !.written = r.written, !.removeFailed = r.removeFailed]
              IN  Out(r.files, IF r.exc = "none" THEN "saved" ELSE "failed", r.exc, e)

\* ------------------------------------------------------------------------
\* Input: the saved pages of the input directory
\* ------------------------------------------------------------------------
A1(k, v) == (k :> v)
A2(k1, v1, k2, v2) == (k1 :> v1) @@ (k2 :> v2)
A3(k1, v1, k2, v2, k3, v3) == (k1 :> v1) @@ (k2 :> v2) @@ (k3 :> v3)
A4(k1, v1, k2, v2, k3, v3, k4, v4) == (k1 :> v1) @@ (k2 :> v2) @@ (k3 :> v3) @@ (k4 :> v4)

\* a saved page whose answer container has the given class and children
Page(cls, kids) ==
    Elem("html", NoAttrs,
         <<Elem("head", NoAttrs, <<Elem("title", NoAttrs, <<Text(T_x)>>)>>),
           Elem("body", NoAttrs,
                <<Elem("div", A1("class", C_qtext), <<Text(T_y)>>),
                  Elem("div", A1("class", cls), kids)>>)>>)

GoodInline ==
    <<Elem("pre", NoAttrs, <<Elem("span", A1("style", T_w), <<Text(T_x), Elem("b", NoAttrs, <<>>), Text(T_y)>>)>>)>>
CodeRows ==
    <<Elem("div", NoAttrs, <<Elem("span", NoAttrs, <<Text(T_x)>>), Elem("span", NoAttrs, <<Text(T_y)>>)>>),
      Elem("div", NoAttrs, <<Elem("span", NoAttrs, <<Text(T_y)>>)>>)>>

\* text, void and passthrough elements, wrappers and links
KidsLinks ==
    <<Text(T_x),
      Elem("br", A1("class", S_hidden), <<>>),
      Elem("b", A1("data-embed", M_iframe), <<Text(T_y)>>),
      Elem("div", A1("class", C_unhidden), <<Text(T_x)>>),
      Elem("div", NoAttrs, <<Elem("span", A1("style", T_w),
                                  <<Elem("a", A2("href", H_rel, "class", C_qtext), <<Text(T_x)>>)>>)>>),
      Elem("a", A1("href", H_abs), <<Elem("i", NoAttrs, <<Text(T_y)>>)>>),
      Elem("a", A1("href", H_frag), <<>>),
      Elem("a", A1("href", H_proto), <<>>),
      Elem("a", A1("name", T_x), <<>>),
      Elem("a", A2("href", H_rel, "class", S_ContentFooter), <<Text(T_x)>>)>>

\* images: a plain one with both sources, a math one (whose file an earlier
\* run has left in the output directory), a plain one without a master source
KidsImages ==
    <<Elem("img", A4("master_src", U_a, "src", U_b, "alt", T_alt, "width", T_w), <<>>),
      Elem("img", A3("class", C_math, "src", U_m, "master_src", U_a), <<>>),
      Elem("img", A2("src", U_b, "alt", T_alt), <<>>)>>

\* two URLs with the same derived file name, one of them twice
KidsSameName ==
    <<Elem("img", A1("master_src", U_a), <<>>),
      Elem("span", NoAttrs, <<Elem("img", A1("master_src", U_a2), <<>>)>>),
      Elem("img", A2("master_src", U_a, "class", S_hidden), <<>>)>>

\* video embeds: a well-formed one, one already absolute, and two whose
\* fragment does not start with an iframe
KidsEmbeds ==
    <<Elem("div", A2("data-embed", M_iframe, "class", S_inline_codeblock), <<Text(T_x)>>),
      Elem("span", A1("data-embed", M_iframe_abs), <<>>),
      Elem("div", A1("data-embed", M_para), <<Text(T_y)>>),
      Elem("div", A1("data-embed", M_blank), <<>>)>>

\* code: inline (well-formed, hidden, of another shape) and block
KidsCode ==
    <<Elem("div", A1("class", S_inline_codeblock), GoodInline),
      Elem("span", A1("class", C_code_hidden), GoodInline),
      Elem("div", A1("class", S_inline_codeblock), <<Elem("pre", NoAttrs, <<Elem("b", NoAttrs, <<Text(T_x)>>)>>)>>),
      Elem("table", A1("class", S_codeblocktable), CodeRows),
      Elem("div", A1("class", S_codeblocktable), CodeRows),
      Elem("table", A1("class", C_table_hidden), CodeRows),
      Elem("img", A2("class", S_codeblocktable, "master_src", U_bare), <<>>)>>

\* an inline code element that holds its text directly
KidsInlineText ==
    <<Text(T_x), Elem("span", A1("class", S_inline_codeblock), <<Text(T_y)>>), Text(T_x)>>

\* a comment inside the answer
KidsComment ==
    <<Elem("b", NoAttrs, <<Comment(T_x), Text(T_y)>>), Text(T_x)>>

\* an element no branch knows, and an img whose URL has no scheme
KidsOther ==
    <<Elem("p", A1("class", C_qtext), <<Text(T_x), Elem("span", NoAttrs, <<>>)>>),
      Elem("img", A2("master_src", U_rel, "alt", T_alt), <<>>)>>

\* The pages the input directory may hold, by file name (their order is the
\* sorted order of the names).  The last page has no div whose class holds
\* the word ExpandedAnswer.
Pages ==
    <<Page(C_answer, KidsLinks \o KidsCode),
      Page(C_answer, KidsImages),
      Page(S_ExpandedAnswer, KidsSameName),
      Page(C_answer, KidsEmbeds \o KidsOther),
      Page(C_answer, KidsInlineText),
      Page(C_answer, KidsComment),
      Page(C_collapsed, KidsLinks)>>

\* HTMLParser.parse of a data-embed value: the children of the body element
\* of the parsed fragment
ParseFragment(markup) ==
    IF markup = M_iframe
    THEN <<Elem("iframe", A2("src", V_proto, "width", T_w), <<>>)>>
    ELSE IF markup = M_iframe_abs
    THEN <<Elem("iframe", A1("src", V_abs), <<Text(T_x)>>)>>
    ELSE IF markup = M_para
    THEN <<Elem("p", NoAttrs, <<Text(T_y)>>)>>
    ELSE <<>>

\* the number of pages in the input directory, at most
MaxFiles == 2

\* sorted lists of up to MaxFiles distinct page numbers
RECURSIVE SortedLists(_, _)
SortedLists(lo, n) ==
    IF n = 0 THEN {<<>>}
    ELSE {<<>>} \cup UNION {{<<p>> \o t : t \in SortedLists(p + 1, n - 1)} : p \in lo..Len(Pages)}

\* ------------------------------------------------------------------------
\* crawler.py: parse_quora_date
\* ------------------------------------------------------------------------
days_of_week == <<"Mon", "Tue", "Wed", "Thu", "Fri", "Sat", "Sun">>
months_of_year ==
    <<"Jan", "Feb", "Mar", "Apr", "May", "Jun", "Jul", "Aug", "Sep", "Oct", "Nov", "Dec">>

SecondsPerMinute == 60
SecondsPerHour == 3600
SecondsPerDay == 86400
WeekWindow == 7
YearWindow == 366

\* list.index(x): counted from 0
IndexOf(list, x) == (CHOOSE i \in 1..Len(list) : list[i] = x) - 1

\* int(s) for a string of decimal digits
DigitValue(c) ==
    CASE c = "0" -> 0 [] c = "1" -> 1 [] c = "2" -> 2 [] c = "3" -> 3 [] c = "4" -> 4
      [] c = "5" -> 5 [] c = "6" -> 6 [] c = "7" -> 7 [] c = "8" -> 8 [] c = "9" -> 9

RECURSIVE ParseInt(_)
ParseInt(s) ==
    IF s = <<>> THEN 0
    ELSE 10 * ParseInt(SubSeq(s, 1, Len(s) - 1)) + DigitValue(s[Len(s)])

\* The proleptic Gregorian date of the day that is z days after 1970-01-01
\* (z may be negative), from the days of 400-year eras that start on 1 March.
CivilFromDays(z) ==
    LET s == z + 719468
        era == s \div 146097
        doe == s - era * 146097
        yoe == (doe - doe \div 1460 + doe \div 36524 - doe \div 146096) \div 365
        doy == doe - (365 * yoe + yoe \div 4 - yoe \div 100)
        mp == (5 * doy + 2) \div 153
        d == doy - (153 * mp + 2) \div 5 + 1
        m == IF mp < 10 THEN mp + 3 ELSE mp - 9
        y == yoe + era * 400 + (IF m <= 2 THEN 1 ELSE 0)
    IN  [tm_year |-> y, tm_mon |-> m, tm_mday |-> d]

\* time.gmtime(t): the fields parse_quora_date reads; tm_wday is 0 on Monday,
\* and 1970-01-01 was a Thursday
gmtime(t) ==
    LET z == t \div SecondsPerDay
    IN  CivilFromDays(z) @@ [tm_wday |-> (z + 3) % 7]

IsLeap(y) == (y % 4 = 0 /\ y % 100 # 0) \/ y % 400 = 0
DaysInMonth(y, m) ==
    IF m = 2 THEN (IF IsLeap(y) THEN 29 ELSE 28)
    ELSE IF m \in {4, 6, 9, 11} THEN 30 ELSE 31

\* time.strptime(date_str, '%d %b %Y'): ValueError for a day the month lacks
strptime(day, mon, year) ==
    IF day >= 1 /\ year >= 1 /\ day <= DaysInMonth(year, mon)
    THEN [ok |-> TRUE, tm |-> [tm_year |-> year, tm_mon |-> mon, tm_mday |-> day]]
    ELSE [ok |-> FALSE, tm |-> <<>>]

\* the first offset of both walks (lines 45 and 57)
FirstOffset == 1

\* Variant of Window: the loops stop one offset early ("<" for "<=").
WindowShort(str) == IF str.m = "m3" THEN WeekWindow - 1 ELSE YearWindow - 1

\* the largest offset a walk tries (lines 46 and 58)
Window(str) == IF str.m = "m3" THEN WeekWindow ELSE YearWindow

\* the test of a walk at one offset: lines 47-48 for a day of the week,
\* lines 59-60 for a day and month
WalkMatch(orig, str, off) ==
    LET tm == gmtime(orig - SecondsPerDay * off) IN
    IF str.m = "m3"
    THEN tm.tm_wday = IndexOf(days_of_week, str.name)
    ELSE /\ tm.tm_mon = IndexOf(months_of_year, str.name) + 1
         /\ tm.tm_mday = ParseInt(str.n)

\* parse_quora_date(origin, quora_str) without the two walks.  The date
\* string is given by the pattern of lines 28-34 that matches it (m) and the
\* groups of the match (n: digits, name: a day or month name, year: digits);
\* ok = FALSE stands for ValueError.
ParseDirect(orig, str) ==
    IF str.m = "empty" THEN [ok |-> FALSE, tm |-> <<>>]
    ELSE IF str.m \in {"m0", "m6"} THEN [ok |-> TRUE, tm |-> gmtime(orig)]
    ELSE IF str.m = "m1"
    THEN [ok |-> TRUE, tm |-> gmtime(orig - SecondsPerMinute * ParseInt(str.n))]
    ELSE IF str.m = "m2"
    THEN [ok |-> TRUE, tm |-> gmtime(orig - SecondsPerHour * ParseInt(str.n))]
    ELSE IF str.m = "m5"
    THEN strptime(ParseInt(str.n), IndexOf(months_of_year, str.name) + 1,
                  ParseInt(str.year))
    ELSE [ok |-> FALSE, tm |-> <<>>]

\* line 70: '%d-%02d-%02d' of the year, month and day
FormatDate(tm) == [known |-> TRUE, ymd |-> <<tm.tm_year, tm.tm_mon, tm.tm_mday>>]

\* line 131: 'xxxx-xx-xx', the date of an answer whose date string raised
\* ValueError
UnknownDate == [known |-> FALSE, ymd |-> <<>>]

\* -- the inputs of the date parser ------------------------------------------
\* origin days are the days around the end of February in a leap year and in
\* the year after it, the epoch and 2020-03-10, each with up to
\* MaxOriginShift days added
MaxOriginShift == 1

OriginBaseDays == {-1, 18321, 18331, 18686}
Origins ==
    {SecondsPerDay * (b + k) + s :
        b \in OriginBaseDays, k \in 0..MaxOriginShift, s \in {0, 43200, 86399}}

DigitChars == <<"0", "1", "2", "3", "4", "5", "6", "7", "8", "9">>
RECURSIVE Digits(_)
Digits(n) ==
    IF n < 10 THEN <<DigitChars[n + 1]>> ELSE Append(Digits(n \div 10), DigitChars[(n % 10) + 1])

DateStr(m, n, name, year) == [m |-> m, n |-> n, name |-> name, year |-> year]
Range(f) == {f[i] : i \in DOMAIN f}

DateStrings ==
    {DateStr("m3", <<>>, w, <<>>) : w \in Range(days_of_week)}
    \cup {DateStr("m4", Digits(d), mo, <<>>) :
            d \in {0, 1, 28, 29, 30, 31, 32}, mo \in {"Jan", "Feb", "Mar", "Apr", "Dec"}}
    \cup {DateStr("m5", Digits(d), "Feb", Digits(y)) : d \in {0, 29}, y \in {2019, 2020}}
    \cup {DateStr("m1", Digits(n), "", <<>>) : n \in {2, 1500}}
    \cup {DateStr("m2", Digits(n), "", <<>>) : n \in {2, 13}}
    \cup {DateStr(m, <<>>, "", <<>>) : m \in {"m0", "m6", "none", "empty"}}

\* -- the file name of an answer (crawl loop, lines 134-152) ------------------
\* str[:stop], the slice of Python: a negative stop counts from the end, and
\* a stop outside the string is clamped
SliceTo(s, stop) ==
    LET n == Len(s)
        e == IF stop < 0 THEN (IF n + stop < 0 THEN 0 ELSE n + stop)
             ELSE (IF stop > n THEN n ELSE stop)
    IN  SubSeq(s, 1, e)

\* '%04d' and '%02d' as strftime writes the year, the month and the day
ZeroPad(n, width) ==
    [i \in 1..(width - Len(Digits(n))) |-> "0"] \o Digits(n)

\* the text of added_time: the result of strftime('%Y-%m-%d') (line 70), or
\* 'xxxx-xx-xx' (line 131)
DateText(t) ==
    IF t.known
    THEN ZeroPad(t.ymd[1], 4) \o <<"-">> \o ZeroPad(t.ymd[2], 2) \o <<"-">> \o ZeroPad(t.ymd[3], 2)
    ELSE S_unknown_date

\* pat occurs in s at position i
OccursAt(pat, s, i) ==
    /\ i >= 1
    /\ i + Len(pat) - 1 <= Len(s)
    /\ \A k \in 1..Len(pat) : s[i + k - 1] = pat[k]

\* the last position of the run of characters other than '/' that starts at
\* i (i - 1 when the run is empty): what [^/]+ takes when a '/' or the end of
\* the string must follow it
SegmentEnd(s, i) ==
    LET slashes == {j \in i..Len(s) : s[j] = "/"}
    IN  IF slashes = {} THEN Len(s)
        ELSE (CHOOSE j \in slashes : \A k \in slashes : j <= k) - 1

NoMatch == [found |-> FALSE, group |-> <<>>]

\* re.search('quora\.com/([^/]+)/answer', url) (line 135): the leftmost match
QuestionMatch(u) ==
    LET g(p) == p + Len(S_quora_com_slash)
        ok(p) == /\ OccursAt(S_quora_com_slash, u, p)
                 /\ SegmentEnd(u, g(p)) >= g(p)
                 /\ OccursAt(S_slash_answer, u, SegmentEnd(u, g(p)) + 1)
        ps == {p \in 1..Len(u) : ok(p)}
    IN  IF ps = {} THEN NoMatch
        ELSE LET p == CHOOSE q \in ps : \A r \in ps : q <= r
             IN  [found |-> TRUE, group |-> SubSeq(u, g(p), SegmentEnd(u, g(p)))]

\* re.search('quora\.com/[^/]+/([^/]+)/answer', url) (line 137): the leftmost
\* match
TopicMatch(u) ==
    LET g1(p) == p + Len(S_quora_com_slash)
        g2(p) == SegmentEnd(u, g1(p)) + 2
        ok(p) == /\ OccursAt(S_quora_com_slash, u, p)
                 /\ SegmentEnd(u, g1(p)) >= g1(p)
                 /\ OccursAt(S_slash, u, SegmentEnd(u, g1(p)) + 1)
                 /\ SegmentEnd(u, g2(p)) >= g2(p)
                 /\ OccursAt(S_slash_answer, u, SegmentEnd(u, g2(p)) + 1)
        ps == {p \in 1..Len(u) : ok(p)}
    IN  IF ps = {} THEN NoMatch
        ELSE LET p == CHOOSE q \in ps : \A r \in ps : q <= r
             IN  [found |-> TRUE, group |-> SubSeq(u, g2(p), SegmentEnd(u, g2(p)))]

\* the limit on the length of a file name (lines 148-149)
MaxFilename == 255

\* Variant of TrimStop: the extension is left out of the length.
TrimStopWithoutExtension(name) == MaxFilename - Len(name)

\* the stop of the slice of line 149
TrimStop(name) == MaxFilename - Len(name \o S_dot_html)

\* -- the inputs of the crawl loop --------------------------------------------
\* the question parts are as long as the longest that needs no trimming, up to
\* MaxExcess characters shorter or longer, and a short and a long one
MaxExcess == 2

SlugChars == <<"W", "h", "y", "-", "i", "s", "-", "2", "+", "2", "-", "4", "_">>
Slug(n) == [i \in 1..n |-> SlugChars[((i - 1) % Len(SlugChars)) + 1]]

LongestUntrimmed == MaxFilename - Len(S_dot_html) - Len(S_space) - Len(S_unknown_date)

SlugLens ==
    {1, LongestUntrimmed + 50}
    \cup {LongestUntrimmed + k : k \in (0 - MaxExcess)..MaxExcess}

U_site == <<"h", "t", "t", "p", "s", ":", "/", "/", "w", "w", "w", ".">> \o S_quora_com_slash
U_user == <<"/", "J", "o">>
U_topic == <<"M", "a", "t", "h", "/">>

Urls ==
    {U_site \o Slug(n) \o S_slash_answer \o U_user : n \in SlugLens}
    \cup {U_site \o U_topic \o Slug(n) \o S_slash_answer \o U_user : n \in SlugLens}
    \cup {U_site \o Slug(3), U_site \o <<"p", "r", "o", "f", "i", "l", "e">> \o U_user,
          U_site \o S_slash_answer \o U_user}

\* the origins and the date strings of the crawl loop's runs: noon of
\* 2020-03-10 and the last second of 1969; every way parse_quora_date ends
CrawlOrigins == {SecondsPerDay * 18331 + 43200, 0 - 1}

CrawlDateStrings ==
    {s \in DateStrings :
        \/ s.m \in {"m0", "m5", "none", "empty"}
        \/ s.m = "m3" /\ s.name \in {"Mon", "Tue"}
        \/ s.m = "m4" /\ s.name = "Dec" /\ s.n \in {Digits(0), Digits(28)}}


\* ------------------------------------------------------------------------
\* converter.py as a state machine
\* ------------------------------------------------------------------------
VARIABLES
    no_download,  \* args.no_download
    filenames,    \* the sorted list of input files (page numbers)
    idx,          \* position of the per-file loop in filenames
    pc,           \* "loop", "parse", "cleanup", "done", "crashed"
    stack,        \* the active calls of cleanup_tree, outermost first
    files,        \* the output directory's image files
    saved,        \* the converted pages written so far: page number -> body
    warnings,     \* the warnings and errors printed by the latest step
    lastEv,       \* what the download code did for the latest image
    netCalls,     \* file name -> the calls of urlopen made for it
    completed,    \* file name -> the downloads of it written in full
    netOKs,       \* the calls of urlopen(src).read() that returned
    sleeps,       \* the calls of time.sleep
    last,         \* the branch of cleanup_tree taken by the latest step
    docError,     \* the per-document error of the current document, if any
    crash         \* the exception that ended the run, if any

\* crawler.py, as far as the date of an answer goes
VARIABLES
    origin,       \* the origin timestamp, in seconds
    quora_str,    \* the date string of the answer (e[1])
    cpc,          \* "date": before line 127; "walk": in a loop of
                  \* parse_quora_date; "name": after line 132
    offset,       \* the offset of the walk
    added_time,   \* the date the file name starts with
    url,          \* the address of the answer (e[0])
    filename,     \* the file name, as lines 138-151 build it
    total_length  \* line 147

converterVars == <<no_download, filenames, idx, pc, stack, files, saved, warnings,
                   lastEv, netCalls, completed, netOKs, sleeps, last, docError, crash>>
nameVars == <<url, filename, total_length>>
crawlerVars == <<origin, quora_str, cpc, offset, added_time, nameVars>>
vars == <<converterVars, crawlerVars>>

\* a counter per file name: the count of a name not yet counted is 0
Count(c, fn) == IF fn \in DOMAIN c THEN c[fn] ELSE 0
Bump(c, fn) == [n \in (DOMAIN c) \cup {fn} |-> IF n = fn THEN Count(c, fn) + 1 ELSE c[n]]

NoEv == [src |-> <<>>, fn |-> <<>>, existed |-> FALSE, created |-> FALSE, net |-> "none",
         slept |-> FALSE, written |-> FALSE, removeFailed |-> FALSE, result |-> "none"]

CrawlerIdle ==
    /\ origin = 0
    /\ quora_str = DateStr("empty", <<>>, "", <<>>)
    /\ cpc = "idle"
    /\ offset = 0
    /\ added_time = UnknownDate
    /\ url = EmptyStr
    /\ filename = EmptyStr
    /\ total_length = 0

NoLast == [op |-> "none", child |-> <<>>, depth |-> 0, nOut |-> 0, exc |-> "none"]

Init ==
    /\ no_download \in BOOLEAN
    /\ filenames \in SortedLists(1, MaxFiles) \ {<<>>}
    /\ idx = 1
    /\ pc = "loop"
    /\ stack = <<>>
    /\ files = A1(DeriveFilename(U_m).name, "old")
    /\ saved = NoAttrs
    /\ warnings = <<>>
    /\ lastEv = NoEv
    /\ netCalls = NoAttrs
    /\ completed = NoAttrs
    /\ netOKs = 0
    /\ sleeps = 0
    /\ last = NoLast
    /\ docError = "none"
    /\ crash = "none"
    /\ CrawlerIdle

\* the first div of the page whose class attribute, split at blanks, holds
\* ExpandedAnswer (lines 236-243); <<>> for None
FindAnswer(document) ==
    LET divs == getElementsByTagName(document, "div")
        hits == {i \in 1..Len(divs) :
                    InList(S_ExpandedAnswer, Split(getAttribute(divs[i], "class")))}
    IN  IF hits = {} THEN <<>>
        ELSE <<divs[CHOOSE i \in hits : \A j \in hits : i <= j]>>

\* lines 219-227: the next file is opened and read
ReadPage ==
    /\ pc = "loop"
    /\ idx <= Len(filenames)
    /\ last' = NoLast
    /\ \/ /\ pc' = "parse"
          /\ docError' = "none"
          /\ warnings' = <<>>
          /\ UNCHANGED idx
       \/ /\ docError' = "read"
          /\ warnings' = <<"ERROR read">>
          /\ idx' = idx + 1
          /\ pc' = "loop"
    /\ UNCHANGED <<no_download, filenames, stack, files, saved, crash>>
    /\ UNCHANGED <<lastEv, netCalls, completed, netOKs, sleeps, crawlerVars>>

\* lines 229-246 when no answer container is found: the warning's format
\* arguments name the variable url, which converter.py never binds, so the
\* print raises NameError and the run ends
AnswerMissing ==
    /\ pc = "parse"
    /\ FindAnswer(Pages[filenames[idx]]) = <<>>
    /\ docError' = "no_answer"
    /\ pc' = "crashed"
    /\ crash' = "NameError"
    /\ UNCHANGED <<no_download, filenames, idx, stack, files, saved, warnings, last>>
    /\ UNCHANGED <<lastEv, netCalls, completed, netOKs, sleeps, crawlerVars>>

\* lines 229-269 when the answer container is found: the call of cleanup_tree
\* on it with the new body element as dest
AnswerFound ==
    /\ pc = "parse"
    /\ FindAnswer(Pages[filenames[idx]]) # <<>>
    /\ stack' = <<[todo |-> FindAnswer(Pages[filenames[idx]])[1].kids, out |-> <<>>,
                   mode |-> "root", tag |-> "body", attrs |-> NoAttrs]>>
    /\ pc' = "cleanup"
    /\ UNCHANGED <<no_download, filenames, idx, files, saved, warnings, last,
                   docError, crash>>
    /\ UNCHANGED <<lastEv, netCalls, completed, netOKs, sleeps, crawlerVars>>

\* the innermost active call, the child its loop is at, and the bookkeeping
\* of one iteration of the loop of line 41
Top == stack[Len(stack)]
Child == Head(Top.todo)
InLoop == pc = "cleanup" /\ stack # <<>> /\ Top.todo # <<>>

\* the loop moves past the child, having appended the nodes of app to dest
Advance(app) ==
    [stack EXCEPT ![Len(stack)] = [@ EXCEPT !.todo = Tail(@), !.out = @ \o app]]

\* the loop moves past the child and a recursive call of cleanup_tree on it
\* begins; mode "elem": into a new element, mode "flat": into the same dest
Descend(mode, tag, attrs) ==
    Append(Advance(<<>>),
           [todo |-> Child.kids, out |-> <<>>, mode |-> mode, tag |-> tag, attrs |-> attrs])

Took(op, exc) ==
    last' = [op |-> op, child |-> <<Child>>, depth |-> Len(stack),
             nOut |-> Len(Top.out), exc |-> exc]

Quiet ==
    UNCHANGED <<no_download, filenames, idx, files, saved, docError, lastEv, netCalls,
                completed, netOKs, sleeps, crawlerVars>>
Silent == warnings' = <<>>

\* lines 42-45: a text node is cloned into dest
TextNode ==
    /\ InLoop /\ Classify(Child) = "text"
    /\ stack' = Advance(<<ShallowClone(Child)>>)
    /\ Took("text", "none")
    /\ Silent /\ UNCHANGED <<pc, crash>> /\ Quiet

\* lines 46-48: a node that is neither text nor element raises ValueError,
\* which nothing in converter.py catches
OtherNode ==
    /\ InLoop /\ Classify(Child) = "raise"
    /\ Took("raise", "ValueError")
    /\ pc' = "crashed"
    /\ crash' = "ValueError"
    /\ Silent /\ UNCHANGED stack /\ Quiet

\* lines 50-51
VoidElement ==
    /\ InLoop /\ Classify(Child) = "void"
    /\ stack' = Advance(<<ShallowClone(Child)>>)
    /\ Took("void", "none")
    /\ Silent /\ UNCHANGED <<pc, crash>> /\ Quiet

\* lines 52-56: a new element of the same tag; the recursive call fills it
Passthrough ==
    /\ InLoop /\ Classify(Child) = "passthrough"
    /\ stack' = Descend("elem", Child.tag, NoAttrs)
    /\ Took("passthrough", "none")
    /\ Silent /\ UNCHANGED <<pc, crash>> /\ Quiet

\* lines 57-79
Embed ==
    /\ InLoop /\ Classify(Child) = "embed"
    /\ LET r == EmbedTry(ParseFragment(getAttribute(Child, "data-embed"))) IN
       /\ Took("embed", r.exc)
       /\ IF r.exc = "none"
          THEN /\ stack' = Advance(r.node)
               /\ Silent
          ELSE /\ stack' = Advance(<<DeepClone(Child)>>)
               /\ warnings' = <<"WARNING video embed">>
    /\ UNCHANGED <<pc, crash>> /\ Quiet

\* lines 80-93
InlineCode ==
    /\ InLoop /\ Classify(Child) = "inline_code"
    /\ LET r == InlineCodeTry(Child) IN
       /\ Took("inline_code", r.exc)
       /\ IF r.exc = "none"
          THEN /\ stack' = Advance(r.node)
               /\ Silent
               /\ UNCHANGED <<pc, crash>>
          ELSE IF InlineCodeCaught(r.exc)
          THEN /\ stack' = Advance(<<DeepClone(Child)>>)
               /\ warnings' = <<"WARNING inline codeblock">>
               /\ UNCHANGED <<pc, crash>>
          ELSE /\ pc' = "crashed"
               /\ crash' = r.exc
               /\ Silent
               /\ UNCHANGED stack
    /\ Quiet

\* lines 94-96
Skip ==
    /\ InLoop /\ Classify(Child) = "skip"
    /\ stack' = Advance(<<>>)
    /\ Took("skip", "none")
    /\ Silent /\ UNCHANGED <<pc, crash>> /\ Quiet

\* lines 97-99: the recursive call appends to the same dest
Wrapper ==
    /\ InLoop /\ Classify(Child) = "wrapper"
    /\ stack' = Descend("flat", Child.tag, NoAttrs)
    /\ Took("wrapper", "none")
    /\ Silent /\ UNCHANGED <<pc, crash>> /\ Quiet

\* lines 101-109
Link ==
    /\ InLoop /\ Classify(Child) = "link"
    /\ stack' = Descend("elem", "a", A1("href", LinkHref(Child)))
    /\ Took("link", "none")
    /\ Silent /\ UNCHANGED <<pc, crash>> /\ Quiet

\* lines 110-118 with args.no_download set
ImageNoDownload ==
    /\ InLoop /\ Classify(Child) = "image"
    /\ no_download
    /\ stack' = Advance(<<NewImg(Child)>>)
    /\ Took("image", "none")
    /\ Silent /\ UNCHANGED <<pc, crash>> /\ Quiet

\* lines 110-166 with downloading enabled
ImageDownload ==
    /\ InLoop /\ Classify(Child) = "image"
    /\ ~no_download
    /\ \E oc \in Outcomes :
         LET r == FetchImage(ImgSrc(Child), files, oc)
             h == OuterHandler(r.exc)
         IN
         /\ files' = r.files
         /\ lastEv' = r.ev
         /\ netCalls' = IF r.ev.created THEN Bump(netCalls, r.ev.fn) ELSE netCalls
         /\ completed' = IF r.ev.written THEN Bump(completed, r.ev.fn) ELSE completed
         /\ netOKs' = netOKs + (IF r.ev.net = "ok" THEN 1 ELSE 0)
         /\ sleeps' = sleeps + (IF r.ev.slept THEN 1 ELSE 0)
         /\ stack' = Advance(<<setAttribute(NewImg(Child), "src", r.src)>>)
         /\ Took("image", r.exc)
         /\ warnings' =
              (IF r.ev.removeFailed THEN <<"WARNING remove incomplete file">> ELSE <<>>)
              \o (IF r.exc = "none" \/ h = "uncaught" THEN <<>>
                  ELSE <<h>>)
         /\ IF r.exc # "none" /\ h = "uncaught"
            THEN pc' = "crashed" /\ crash' = r.exc
            ELSE UNCHANGED <<pc, crash>>
    /\ UNCHANGED <<no_download, filenames, idx, saved, docError, crawlerVars>>

\* lines 167-186
BlockCodeElement ==
    /\ InLoop /\ Classify(Child) = "block_code"
    /\ stack' = Advance(<<BlockCode(Child)>>)
    /\ Took("block_code", "none")
    /\ Silent /\ UNCHANGED <<pc, crash>> /\ Quiet

\* lines 187-190
Unrecognized ==
    /\ InLoop /\ Classify(Child) = "unrecognized"
    /\ stack' = Advance(<<DeepClone(Child)>>)
    /\ warnings' = <<"WARNING Unrecognized node">>
    /\ Took("unrecognized", "none")
    /\ UNCHANGED <<pc, crash>> /\ Quiet

\* a recursive call of cleanup_tree ends: what it built becomes one element
\* of the caller's dest (lines 56, 108) or joins it directly (line 99)
Return ==
    /\ pc = "cleanup"
    /\ Len(stack) > 1
    /\ Top.todo = <<>>
    /\ LET built == IF Top.mode = "flat" THEN Top.out
                    ELSE <<Elem(Top.tag, Top.attrs, Top.out)>>
           rest == SubSeq(stack, 1, Len(stack) - 1)
       IN  stack' = [rest EXCEPT ![Len(rest)] = [@ EXCEPT !.out = @ \o built]]
    /\ last' = NoLast
    /\ Silent /\ UNCHANGED <<pc, crash>> /\ Quiet

\* lines 270-278: the outermost call has ended and the page is written
SavePage ==
    /\ pc = "cleanup"
    /\ Len(stack) = 1
    /\ Top.todo = <<>>
    /\ \/ /\ saved' = saved @@ (filenames[idx] :>
                         [title |-> get_title_node(Pages[filenames[idx]]), body |-> Top.out])
          /\ Silent
          /\ UNCHANGED docError
       \/ /\ docError' = "write"
          /\ warnings' = <<"ERROR save">>
          /\ UNCHANGED saved
    /\ stack' = <<>>
    /\ idx' = idx + 1
    /\ pc' = "loop"
    /\ last' = NoLast
    /\ UNCHANGED <<no_download, filenames, files, crash>>
    /\ UNCHANGED <<lastEv, netCalls, completed, netOKs, sleeps, crawlerVars>>

\* line 280
Finish ==
    /\ pc = "loop"
    /\ idx > Len(filenames)
    /\ pc' = "done"
    /\ UNCHANGED <<no_download, filenames, idx, stack, files, saved, warnings, last,
                   docError, crash>>
    /\ UNCHANGED <<lastEv, netCalls, completed, netOKs, sleeps, crawlerVars>>

Next ==
    \/ ReadPage \/ AnswerMissing \/ AnswerFound
    \/ TextNode \/ OtherNode \/ VoidElement \/ Passthrough \/ Embed \/ InlineCode
    \/ Skip \/ Wrapper \/ Link \/ ImageNoDownload \/ ImageDownload
    \/ BlockCodeElement \/ Unrecognized \/ Return
    \/ SavePage \/ Finish

Spec == Init /\ [][Next]_vars


\* ------------------------------------------------------------------------
\* crawler.py: the crawl loop (lines 121-152)
\* ------------------------------------------------------------------------
ConverterIdle ==
    /\ no_download = FALSE
    /\ filenames = <<>>
    /\ idx = 1
    /\ pc = "idle"
    /\ stack = <<>>
    /\ files = NoAttrs
    /\ saved = NoAttrs
    /\ warnings = <<>>
    /\ lastEv = NoEv
    /\ netCalls = NoAttrs
    /\ completed = NoAttrs
    /\ netOKs = 0
    /\ sleeps = 0
    /\ last = NoLast
    /\ docError = "none"
    /\ crash = "none"

DateInit ==
    /\ ConverterIdle
    /\ origin \in Origins
    /\ quora_str \in DateStrings
    /\ cpc = "date"
    /\ offset = 0
    /\ added_time = UnknownDate
    /\ url = EmptyStr
    /\ filename = EmptyStr
    /\ total_length = 0

Walks == {"m3", "m4"}

\* lines 127-128 and 24-41, 65-70: a date string that needs no walk is parsed
DateParsed ==
    /\ cpc = "date"
    /\ quora_str.m \notin Walks
    /\ ParseDirect(origin, quora_str).ok
    /\ added_time' = FormatDate(ParseDirect(origin, quora_str).tm)
    /\ cpc' = "name"
    /\ UNCHANGED <<origin, quora_str, offset>>
    /\ UNCHANGED <<converterVars, nameVars>>

\* lines 129-131: ValueError (lines 27, 67, 69) is caught and the date is unknown
DateFailed ==
    /\ cpc = "date"
    /\ quora_str.m \notin Walks
    /\ ~ParseDirect(origin, quora_str).ok
    /\ added_time' = UnknownDate
    /\ cpc' = "name"
    /\ UNCHANGED <<origin, quora_str, offset>>
    /\ UNCHANGED <<converterVars, nameVars>>

\* lines 42-45 and 53-57: a walk begins
WalkBegin ==
    /\ cpc = "date"
    /\ quora_str.m \in Walks
    /\ offset' = FirstOffset
    /\ cpc' = "walk"
    /\ UNCHANGED <<origin, quora_str, added_time>>
    /\ UNCHANGED <<converterVars, nameVars>>

\* lines 46-50 and 58-62: the day at this offset does not match
WalkStep ==
    /\ cpc = "walk"
    /\ offset <= Window(quora_str)
    /\ ~WalkMatch(origin, quora_str, offset)
    /\ offset' = offset + 1
    /\ UNCHANGED <<origin, quora_str, cpc, added_time>>
    /\ UNCHANGED <<converterVars, nameVars>>

\* lines 48-49 and 60-61, then line 70: the day at this offset matches
WalkFound ==
    /\ cpc = "walk"
    /\ offset <= Window(quora_str)
    /\ WalkMatch(origin, quora_str, offset)
    /\ added_time' = FormatDate(gmtime(origin - SecondsPerDay * offset))
    /\ cpc' = "name"
    /\ UNCHANGED <<origin, quora_str, offset>>
    /\ UNCHANGED <<converterVars, nameVars>>

\* lines 51-52 and 63-64: the loop ends without a match and ValueError is
\* raised, which lines 129-131 catch
WalkExhausted ==
    /\ cpc = "walk"
    /\ offset > Window(quora_str)
    /\ added_time' = UnknownDate
    /\ cpc' = "name"
    /\ UNCHANGED <<origin, quora_str, offset>>
    /\ UNCHANGED <<converterVars, nameVars>>

DateNext ==
    \/ DateParsed \/ DateFailed \/ WalkBegin \/ WalkStep \/ WalkFound \/ WalkExhausted

DateSpec == DateInit /\ [][DateNext]_vars

\* -- the file name (lines 134-152) -------------------------------------------
CrawlInit ==
    /\ ConverterIdle
    /\ origin \in CrawlOrigins
    /\ quora_str \in CrawlDateStrings
    /\ url \in Urls
    /\ cpc = "date"
    /\ offset = 0
    /\ added_time = UnknownDate
    /\ filename = EmptyStr
    /\ total_length = 0

dateVars == <<origin, quora_str, offset, added_time>>

\* lines 138-140: the question part follows quora.com/
NameFromQuestion ==
    /\ cpc = "name"
    /\ QuestionMatch(url).found
    /\ filename' = DateText(added_time) \o S_space \o QuestionMatch(url).group
    /\ cpc' = "trim"
    /\ UNCHANGED <<dateVars, url, total_length, converterVars>>

\* lines 138 and 141-142: the question part follows a context topic
NameFromTopic ==
    /\ cpc = "name"
    /\ ~QuestionMatch(url).found
    /\ TopicMatch(url).found
    /\ filename' = DateText(added_time) \o S_space \o TopicMatch(url).group
    /\ cpc' = "trim"
    /\ UNCHANGED <<dateVars, url, total_length, converterVars>>

\* lines 138 and 143-145: no question part; the answer is skipped
NameNotFound ==
    /\ cpc = "name"
    /\ ~QuestionMatch(url).found
    /\ ~TopicMatch(url).found
    /\ filename' = DateText(added_time) \o S_space
    /\ cpc' = "skipped"
    /\ UNCHANGED <<dateVars, url, total_length, converterVars>>

\* lines 147-151: the name is too long with '.html' and is trimmed
FilenameTrimmed ==
    /\ cpc = "trim"
    /\ Len(filename \o S_dot_html) > MaxFilename
    /\ total_length' = Len(filename \o S_dot_html)
    /\ filename' = SliceTo(filename, TrimStop(filename)) \o S_dot_html
    /\ cpc' = "file"
    /\ UNCHANGED <<dateVars, url, converterVars>>

\* lines 147-148 and 151: the name is short enough
FilenameKept ==
    /\ cpc = "trim"
    /\ ~(Len(filename \o S_dot_html) > MaxFilename)
    /\ total_length' = Len(filename \o S_dot_html)
    /\ filename' = filename \o S_dot_html
    /\ cpc' = "file"
    /\ UNCHANGED <<dateVars, url, converterVars>>

CrawlNext ==
    \/ DateNext
    \/ NameFromQuestion \/ NameFromTopic \/ NameNotFound
    \/ FilenameTrimmed \/ FilenameKept

CrawlSpec == CrawlInit /\ [][CrawlNext]_vars

\* ------------------------------------------------------------------------
\* Properties
\* ------------------------------------------------------------------------

\* the call of cleanup_tree the latest step ran in, the child it handled and
\* the node it appended to that call's dest
LastFrame == stack[last.depth]
LastChild == last.child[1]
LastAppended == LastFrame.out[last.nOut + 1]
AppendedOne == Len(LastFrame.out) = last.nOut + 1
ImageFetched == last.op = "image" /\ ~no_download

\* a URL with a scheme and an authority: "<scheme>://..."
IsAbsoluteURL(u) ==
    \E i \in 2..(Len(u) - 2) :
        /\ u[i] = ":" /\ u[i + 1] = "/" /\ u[i + 2] = "/"
        /\ \A j \in 1..(i - 1) : u[j] \notin {"/", ":", "?", "#"}

\* C1 (as stated): after a fetch that created the target file and then failed
\* (network or write error) no file is at the target path, and a file is at
\* the target path after a fetch only if the whole body was written to it or
\* it was there before the fetch.
C1_NoFileAfterFailedFetch ==
    ImageFetched /\ lastEv.fn # <<>> =>
        /\ (lastEv.created /\ lastEv.result = "failed") => lastEv.fn \notin DOMAIN files
        /\ lastEv.fn \in DOMAIN files => (lastEv.written \/ lastEv.existed)

\* C1 (amended): after a fetch that created the target file and then failed,
\* no file is at the target path unless os.remove of the incomplete file
\* failed as well; a file is at the target path after a fetch only if the
\* body was written to it without error, it was there before the fetch, or
\* its removal failed; and a file written in full is never removed.
C1_FileLeftOnlyIfRemoveFailed ==
    ImageFetched /\ lastEv.fn # <<>> =>
        /\ (lastEv.created /\ lastEv.result = "failed" /\ ~lastEv.removeFailed)
              => lastEv.fn \notin DOMAIN files
        /\ lastEv.fn \in DOMAIN files
              => (lastEv.written \/ lastEv.existed \/ lastEv.removeFailed)
        /\ lastEv.written => (lastEv.fn \in DOMAIN files /\ files[lastEv.fn] = "full")

\* C1 witness: a download that failed on the network after the file was
\* created, whose file was removed
C1_Witness ==
    /\ ImageFetched /\ lastEv.created /\ lastEv.result = "failed"
    /\ lastEv.net = "URLError" /\ ~lastEv.removeFailed
    /\ lastEv.fn \notin DOMAIN files

\* C2 (as stated): no derived file name is the target of more than one
\* network call over the life of the output directory.
C2_NeverASecondNetworkCall ==
    \A fn \in DOMAIN netCalls : netCalls[fn] <= 1

\* C2 (amended): a fetch whose derived file name is already in the output
\* directory makes no network call and yields that file name; no file name
\* is downloaded in full twice, and a file downloaded in full stays.
C2_ExistingFileIsNotDownloadedAgain ==
    /\ \A fn \in DOMAIN completed :
          completed[fn] <= 1 /\ fn \in DOMAIN files /\ files[fn] = "full"
    /\ (ImageFetched /\ lastEv.existed) =>
          /\ lastEv.result = "dedup" /\ ~lastEv.created /\ lastEv.net = "none"
          /\ getAttribute(LastAppended, "src") = lastEv.fn

\* C2 witness: a second URL with the derived file name of a completed
\* download is handled without a network call
C2_Witness ==
    /\ ImageFetched /\ lastEv.result = "dedup" /\ lastEv.src = U_a2
    /\ Count(completed, lastEv.fn) = 1 /\ Count(netCalls, lastEv.fn) = 1

\* C3: with downloading enabled every img child appends exactly one img node
\* to dest; its src is the local file name after a completed download or a
\* dedup-skip and the remote URL after any failure.
C3_ImgAlwaysAppended ==
    ImageFetched =>
        /\ AppendedOne
        /\ LastAppended.kind = "elem" /\ LastAppended.tag = "img"
        /\ lastEv.result \in {"saved", "dedup"}
              => getAttribute(LastAppended, "src") = DeriveFilename(ImgSrc(LastChild)).name
        /\ lastEv.result \in {"naming", "open_failed", "failed"}
              => getAttribute(LastAppended, "src") = ImgSrc(LastChild)

\* C3 witness: a failed download whose img node points at the remote URL
C3_Witness ==
    /\ ImageFetched /\ lastEv.result = "failed" /\ AppendedOne
    /\ getAttribute(LastAppended, "src") = U_a

\* C4 (as stated, for the elements whose fallback is the verbatim copy): a
\* failure inside the handling of an embed, code or unrecognized element is
\* caught there, warned about and resolved by appending a verbatim copy of
\* the element, and the run goes on with the next sibling.
C4_NodeFailureNeverAborts ==
    (last.op \in {"embed", "inline_code", "block_code", "unrecognized"}
        /\ (last.exc # "none" \/ last.op = "unrecognized")) =>
        /\ pc # "crashed"
        /\ warnings # <<>>
        /\ AppendedOne
        /\ LastAppended = LastChild

\* C5 (as stated): a per-document error (unreadable input file, no answer
\* container, unwritable output file) does not end the run.
C5_DocumentErrorAbortsOnlyThatDocument ==
    docError # "none" => pc # "crashed"

\* C6 (as stated): the href of every a element and the src of every img
\* element that cleanup_tree creates is an absolute URL.
C6_AllReferencesAbsolute ==
    /\ last.op = "link" => IsAbsoluteURL(stack[last.depth + 1].attrs["href"])
    /\ last.op = "image" => IsAbsoluteURL(getAttribute(LastAppended, "src"))

\* C6 (amended): the a element created for a link has exactly the attribute
\* href; an href that starts with "/" is prefixed with http://quora.com and
\* is then absolute, any other href (absolute or not) is unchanged.  The src
\* of a created img is the URL taken from the source element, unchanged, or
\* the local file name derived from it.
C6_OnlySiteRelativeHrefRewritten ==
    /\ last.op = "link" =>
          LET h == getAttribute(LastChild, "href")
              a == stack[last.depth + 1]
          IN  /\ a.tag = "a" /\ DOMAIN a.attrs = {"href"}
              /\ StartsWith(h, S_slash) =>
                    (a.attrs["href"] = S_quora_origin \o h /\ IsAbsoluteURL(a.attrs["href"]))
              /\ ~StartsWith(h, S_slash) => a.attrs["href"] = h
    /\ last.op = "image" =>
          getAttribute(LastAppended, "src")
              \in {ImgSrc(LastChild), DeriveFilename(ImgSrc(LastChild)).name}

\* C6 witness: a site-relative href has been rewritten
C6_Witness ==
    /\ last.op = "link"
    /\ getAttribute(LastChild, "href") = H_rel
    /\ stack[last.depth + 1].attrs["href"] = S_quora_origin \o H_rel

\* The rules of the classification table, each by its condition
RuleHolds(rule, child) ==
    LET cls == getAttribute(child, "class") IN
    CASE rule = "text" -> child.kind = "text"
      [] rule = "void" -> child.kind = "elem" /\ child.tag \in {"br", "hr"}
      [] rule = "passthrough" ->
            child.kind = "elem"
            /\ child.tag \in {"b", "i", "u", "h2", "ol", "ul", "li", "blockquote", "wbr"}
      [] rule = "embed" -> child.kind = "elem" /\ getAttribute(child, "data-embed") # <<>>
      [] rule = "inline_code" -> child.kind = "elem" /\ IsSubstr(S_inline_codeblock, cls)
      [] rule = "block_code" -> child.kind = "elem" /\ IsSubstr(S_codeblocktable, cls)
      [] rule = "skip" ->
            child.kind = "elem" /\ (IsSubstr(S_ContentFooter, cls) \/ IsSubstr(S_hidden, cls))
      [] rule = "wrapper" -> child.kind = "elem" /\ child.tag \in {"span", "div"}
      [] rule = "link" -> child.kind = "elem" /\ child.tag = "a"
      [] rule = "image" -> child.kind = "elem" /\ child.tag = "img"
      [] rule = "unrecognized" -> child.kind = "elem"

FirstMatch(order, child) ==
    order[CHOOSE i \in 1..Len(order) :
            /\ RuleHolds(order[i], child)
            /\ \A j \in 1..(i - 1) : ~RuleHolds(order[j], child)]

\* the order of the table of the specification: both code rules before the
\* footer/hidden rule
TableOrder ==
    <<"text", "void", "passthrough", "embed", "inline_code", "block_code", "skip",
      "wrapper", "link", "image", "unrecognized">>

\* the order with the block code rule after the image rule
BlockCodeLateOrder ==
    <<"text", "void", "passthrough", "embed", "inline_code", "skip", "wrapper", "link",
      "image", "block_code", "unrecognized">>

Handled == last.op \notin {"none", "raise"}

\* C7 (as stated): every text or element child is handled by the first rule
\* of the table that matches it, the code rule (inline and block) coming
\* before the footer/hidden, wrapper, link and image rules.
C7_FirstMatchInTableOrder ==
    Handled => last.op = FirstMatch(TableOrder, LastChild)

\* C7 (amended): every text or element child is handled by the first
\* matching rule in the order text, void, passthrough, embed, inline code,
\* footer/hidden, wrapper, link, image, block code, anything else: only the
\* inline code rule comes before the footer/hidden, wrapper, link and image
\* rules, the block code rule comes after them.
C7_FirstMatchBlockCodeLate ==
    Handled => last.op = FirstMatch(BlockCodeLateOrder, LastChild)

\* C7 witness: a div marked as a code block is handled as a wrapper
C7_Witness ==
    /\ last.op = "wrapper"
    /\ LastChild.tag = "div"
    /\ IsSubstr(S_codeblocktable, getAttribute(LastChild, "class"))

\* the src the new img starts with: the value the download code is given or,
\* without download, the src of the appended node
StartSrc == IF no_download THEN getAttribute(LastAppended, "src") ELSE lastEv.src

\* C8 (as stated): the new img starts with the master_src of the source
\* element when that attribute is present and with its src otherwise; alt is
\* copied and nothing else.
C8_MasterSrcElseSrc ==
    last.op = "image" =>
        /\ StartSrc = IF "master_src" \in DOMAIN LastChild.attrs
                      THEN LastChild.attrs["master_src"]
                      ELSE getAttribute(LastChild, "src")
        /\ DOMAIN LastAppended.attrs = {"src", "alt"}
        /\ LastAppended.attrs["alt"] = getAttribute(LastChild, "alt")

\* C8 (amended): the new img starts with the src attribute of the source
\* element when its class contains "math", and with its master_src attribute
\* otherwise (the empty string when that attribute is absent: there is no
\* fallback from one to the other); alt is copied and nothing else.
C8_SrcByMathClass ==
    last.op = "image" =>
        /\ IsSubstr(S_math, getAttribute(LastChild, "class"))
              => StartSrc = getAttribute(LastChild, "src")
        /\ ~IsSubstr(S_math, getAttribute(LastChild, "class"))
              => StartSrc = getAttribute(LastChild, "master_src")
        /\ DOMAIN LastAppended.attrs = {"src", "alt"}
        /\ LastAppended.attrs["alt"] = getAttribute(LastChild, "alt")

\* C8 witness: a math img that has a master_src keeps its src
C8_Witness ==
    /\ last.op = "image" /\ no_download
    /\ "master_src" \in DOMAIN LastChild.attrs
    /\ getAttribute(LastAppended, "src") = U_m

\* C9: time.sleep is called once for every urlopen(src).read() that returned
\* and at no other time: never for a dedup-skip, never after a failed read.
C9_OneDelayPerSuccessfulFetch ==
    /\ sleeps = netOKs
    /\ ImageFetched => (lastEv.slept <=> lastEv.net = "ok")
    /\ (ImageFetched /\ lastEv.result = "dedup") => ~lastEv.slept
    /\ \A fn \in DOMAIN completed : completed[fn] <= sleeps

\* C9 witness: a dedup-skip after one download, with one delay so far
C9_Witness ==
    /\ ImageFetched /\ lastEv.result = "dedup"
    /\ lastEv.fn \in DOMAIN completed
    /\ sleeps = 1

\* the day number (days since 1970-01-01) of the origin, and whether a day
\* has the weekday or the month and day of the date string
OriginDay == origin \div 86400
DayMatches(day) ==
    IF quora_str.m = "m3"
    THEN days_of_week[((day + 3) % 7) + 1] = quora_str.name
    ELSE /\ months_of_year[CivilFromDays(day).tm_mon] = quora_str.name
         /\ CivilFromDays(day).tm_mday = ParseInt(quora_str.n)

\* C10: a weekday resolves to the latest day before the origin day with that
\* weekday, which is at most 7 days back; a day and month resolve to the
\* latest of the 366 days before the origin day with that month and day, and
\* to the unknown date (ValueError, caught) when none of them has it.
C10_LatestMatchingDayBeforeOrigin ==
    (cpc = "name" /\ quora_str.m \in {"m3", "m4"}) =>
        LET window == IF quora_str.m = "m3" THEN 7 ELSE 366
            days == {d \in (OriginDay - window)..(OriginDay - 1) : DayMatches(d)}
        IN  /\ quora_str.m = "m3" => days # {}
            /\ days = {} => added_time = UnknownDate
            /\ days # {} =>
                  LET best == CHOOSE d \in days : \A e \in days : e <= d
                  IN  added_time = FormatDate(CivilFromDays(best))

\* C10 witness: a day and month found on the last day of the window
C10_Witness ==
    /\ cpc = "name" /\ quora_str.m = "m4"
    /\ offset = 366
    /\ added_time # UnknownDate

\* the name that lines 138-142 build, before lines 147-151: the date, a blank and the
\* question part of the address
DerivedName ==
    DateText(added_time) \o S_space
    \o (IF QuestionMatch(url).found THEN QuestionMatch(url).group ELSE TopicMatch(url).group)

\* C11: when the derived name with '.html' is longer than 255 characters, the
\* file name is 255 characters long and is a prefix of the derived name
\* followed by '.html'; otherwise it is the derived name followed by '.html'.
C11_TrimmedToExactly255 ==
    cpc = "file" =>
        IF Len(DerivedName) + 5 > 255
        THEN /\ Len(filename) = 255
             /\ SubSeq(filename, 251, 255) = S_dot_html
             /\ \A i \in 1..250 : filename[i] = DerivedName[i]
        ELSE filename = DerivedName \o S_dot_html

\* C11 witness: a name with a known date that is one character too long with
\* '.html' has been trimmed to 255 characters
C11_Witness ==
    /\ cpc = "file"
    /\ total_length = 256
    /\ Len(filename) = 255
    /\ filename # DerivedName \o S_dot_html
    /\ added_time # UnknownDate

====
